---- MODULE Spec2Model ----
(***************************************************************************)
(* filtered_and_transformed_data (src/filtered_and_transformed_data.py):   *)
(* the cleaning pipeline for one OSM feature collection.                   *)
(*                                                                         *)
(* A collection (GeoDataFrame) is a record                                 *)
(*     [crs, columns, rows]                                                *)
(* where rows is the sequence of records in iteration order.  A row is     *)
(*     [idx, id, geometry, attrs, origin]                                  *)
(* idx is the pandas index label, id the OSM identifier (a column after    *)
(* reset_index), attrs the attribute columns (column name -> value or NA)  *)
(* and origin a history field: the position, in the input, of the record   *)
(* the row descends from.  No operation of the pipeline reads origin.      *)
(*                                                                         *)
(* Geometries are abstract: a Point is a coordinate; a Polygon is the set  *)
(* of point coordinates it contains together with its centroid; a          *)
(* MultiPolygon is a sequence of such parts.  The spatial predicate and    *)
(* the centroid belong to the geospatial library and are read off this     *)
(* representation.                                                         *)
(***************************************************************************)
EXTENDS Integers, Sequences, FiniteSets, TLC

-----------------------------------------------------------------------------
(* Bounds of the model *)

\* Largest number of records of an input drawn from the full catalogue
MaxRecords == 3

\* Sizes of the long inputs, on which a missing fraction can be exactly
\* 0.90 (9/10, 18/20) or strictly between 0.90 and 1 (10/11, 19/20)
BulkSizes == {10, 11, 20}

\* Coordinates input Points can have; polygon centroids also fall on the
\* coordinates 3 and 4, where no input Point is
Locs == {1, 2}

\* OSM identifiers; 1 is also the row label of the second record of an input
IDs == {1, 9}

CRSTags == {"epsg:4326", "epsg:3857"}

NA == "NA"

-----------------------------------------------------------------------------
(* Geometries *)

Point(c) == [type |-> "Point", at |-> c]

Ring(S, c) == [covers |-> S, centroid |-> c]

Polygon(S, c) == [type |-> "Polygon", parts |-> <<Ring(S, c)>>]

MultiPolygon(ps) == [type |-> "MultiPolygon", parts |-> ps]

\* a line that passes through no point coordinate
LineString == [type |-> "LineString", parts |-> <<>>]

\* a footprint around coordinate 1, its centroid at coordinate 4
Footprint == Polygon({1}, 4)
\* a polygon away from every point, its centroid at coordinate 3
Standalone == Polygon({}, 3)
\* two parts, neither containing a point; the centroid of the second part
\* (a horseshoe around coordinate 2) falls on coordinate 2
TwoParts == MultiPolygon(<<Ring({}, 3), Ring({}, 2)>>)
\* two parts, the first containing coordinate 1
TwoPartsOverPoint == MultiPolygon(<<Ring({1}, 4), Ring({}, 3)>>)

Geoms == {Point(c) : c \in Locs}
           \cup {Footprint, Standalone, TwoParts, TwoPartsOverPoint, LineString}

\* OSM element kind of a geometry: the outer index level of the input
ElementOf(g) == CASE g.type = "Point" -> "node"
                  [] g.type = "MultiPolygon" -> "relation"
                  [] OTHER -> "way"

-----------------------------------------------------------------------------
VARIABLES
    pc,                        \* position in the function; "done" after the
                               \* return, "raised" after an exception
    gdf,                       \* the argument
    gdf_dropped_index,         \* lines 17-24
    points_gdf,                \* line 29
    polygons_gdf,              \* line 30
    poly_indexes_with_points,  \* line 36
    filtered_polygons,         \* line 37
    final_gdf,                 \* line 40
    exploded_final_gdf,        \* lines 57-58
    result,                    \* the returned collection (line 66)
    printed,                   \* print() calls, in order
    warned                     \* warnings.warn() calls, in order

vars == <<pc, gdf, gdf_dropped_index, points_gdf, polygons_gdf,
          poly_indexes_with_points, filtered_polygons, final_gdf,
          exploded_final_gdf, result, printed, warned>>

\* value of a local that is not assigned yet
Unset == [crs |-> "unset", columns |-> {}, rows |-> <<>>]

-----------------------------------------------------------------------------
(* Inputs *)

\* an input row: two-level index (element, id), geometry, attributes
InputRow(g, i, a) == [element |-> ElementOf(g), id |-> i, geometry |-> g, attrs |-> a]

\* "name" is missing in the first k records of an input
NameAttr(k, p) == [c \in {"name"} |-> IF p <= k THEN NA ELSE "v"]

\* a sequence of geometries of the catalogue, with identifiers, the first k
\* records without a name
SmallInput(crs, gs, is, k) ==
    [crs |-> crs, columns |-> {"geometry", "name"},
     rows |-> [p \in DOMAIN gs |-> InputRow(gs[p], is[p], NameAttr(k, p))]]

\* the (element, id) index of an OSM collection has no duplicate entry
UniqueIndex(df) ==
    \A p, q \in DOMAIN df.rows :
        p # q => <<df.rows[p].element, df.rows[p].id>> # <<df.rows[q].element, df.rows[q].id>>

\* n Points alternating between the two coordinates; "name" is missing in
\* the first k records and "brand" in the last j
BulkRow(n, k, j, p) ==
    InputRow(Point(IF p % 2 = 1 THEN 1 ELSE 2), 100 + p,
             [c \in {"name", "brand"} |->
                 IF c = "name" THEN (IF p <= k THEN NA ELSE "v")
                               ELSE (IF p > n - j THEN NA ELSE "v")])

BulkInput(crs, n, k, j) ==
    [crs |-> crs, columns |-> {"geometry", "name", "brand"},
     rows |-> [p \in 1..n |-> BulkRow(n, k, j, p)]]

Init ==
    /\ pc = "start"
    /\ \E crs \in CRSTags :
          \/ \E n \in 1..MaxRecords :
                \E gs \in [1..n -> Geoms], is \in [1..n -> IDs], k \in 0..n :
                    /\ UniqueIndex(SmallInput(crs, gs, is, k))
                    /\ gdf = SmallInput(crs, gs, is, k)
          \/ \E n \in BulkSizes :
                \E k \in 0..n, j \in 0..n : gdf = BulkInput(crs, n, k, j)
    /\ gdf_dropped_index = Unset
    /\ points_gdf = Unset
    /\ polygons_gdf = Unset
    /\ poly_indexes_with_points = {}
    /\ filtered_polygons = Unset
    /\ final_gdf = Unset
    /\ exploded_final_gdf = Unset
    /\ result = Unset
    /\ printed = <<>>
    /\ warned = <<>>

-----------------------------------------------------------------------------
(* Step 1 (line 17): drop the "element" level, reset the index *)

reset_index(df) ==
    [crs |-> df.crs,
     columns |-> {"id"} \cup df.columns,
     rows |-> [p \in DOMAIN df.rows |->
                 [idx |-> p - 1,
                  id |-> df.rows[p].id,
                  geometry |-> df.rows[p].geometry,
                  attrs |-> df.rows[p].attrs,
                  origin |-> p]]]

Step1 ==
    /\ pc = "start"
    /\ gdf_dropped_index' = reset_index(gdf)
    /\ pc' = "step2"
    /\ UNCHANGED <<gdf, points_gdf, polygons_gdf, poly_indexes_with_points,
                   filtered_polygons, final_gdf, exploded_final_gdf, result,
                   printed, warned>>

-----------------------------------------------------------------------------
(* Step 2 (lines 20-26): drop the columns with too many missing values *)

\* 0.9 of line 21, as the fraction ThresholdNum / ThresholdDen
ThresholdNum == 9
ThresholdDen == 10

\* isna() of one cell; the id and the geometry of a record are never missing
isna(r, c) == c \in DOMAIN r.attrs /\ r.attrs[c] = NA

\* isna().mean(axis=0): per column, the missing cells over the records.
\* The fraction is kept as the pair (miss, n); the mean over no record is NaN.
missing_values_ratio(df) ==
    [c \in df.columns |->
        [miss |-> Cardinality({p \in DOMAIN df.rows : isna(df.rows[p], c)}),
         n |-> Len(df.rows)]]

\* ratio > 0.9; a comparison with NaN is False.  For n <= 21 the double
\* miss/n exceeds the double 0.9 exactly when the fraction exceeds 9/10.
exceeds_threshold_or_equal(ratio) ==
    ratio.n > 0 /\ ThresholdDen * ratio.miss >= ThresholdNum * ratio.n

only_all_missing(ratio) ==
    ratio.n > 0 /\ ratio.miss = ratio.n

exceeds_threshold(ratio) ==
    ratio.n > 0 /\ ThresholdDen * ratio.miss > ThresholdNum * ratio.n

columns_to_drop(df) ==
    {c \in df.columns : exceeds_threshold(missing_values_ratio(df)[c])}

\* DataFrame.drop(columns=...)
drop(df, cols) ==
    [crs |-> df.crs,
     columns |-> df.columns \ cols,
     rows |-> [p \in DOMAIN df.rows |->
                 [df.rows[p] EXCEPT !.attrs =
                     [c \in (DOMAIN @) \ cols |-> @[c]]]]]

Step2 ==
    /\ pc = "step2"
    /\ LET cols == columns_to_drop(gdf_dropped_index) IN
         IF cols # {}
         THEN /\ printed' = Append(printed, [msg |-> "dropped_columns", columns |-> cols])
              /\ gdf_dropped_index' = drop(gdf_dropped_index, cols)
         ELSE /\ printed' = Append(printed, [msg |-> "no_sparse_columns"])
              /\ UNCHANGED gdf_dropped_index
    /\ pc' = "step3"
    /\ UNCHANGED <<gdf, points_gdf, polygons_gdf, poly_indexes_with_points,
                   filtered_polygons, final_gdf, exploded_final_gdf, result,
                   warned>>

-----------------------------------------------------------------------------
(* Step 3 (lines 29-32): points and polygons *)

IsPoint(r) == r.geometry.type = "Point"

IsNotPoint(r) == r.geometry.type # "Point"

IsPolygonal(r) == r.geometry.type = "Polygon" \/ r.geometry.type = "MultiPolygon"

\* df[mask]: a row selection keeps the columns, the labels and the CRS
PointsOf(df) == [df EXCEPT !.rows = SelectSeq(@, IsPoint)]

PolygonsOfUntagged(df) ==
    [crs |-> "none", columns |-> df.columns, rows |-> SelectSeq(df.rows, IsPolygonal)]

PolygonsOf(df) == [df EXCEPT !.rows = SelectSeq(@, IsPolygonal)]

Step3 ==
    /\ pc = "step3"
    /\ points_gdf' = PointsOf(gdf_dropped_index)
    /\ polygons_gdf' = PolygonsOf(gdf_dropped_index)
    /\ warned' = IF points_gdf'.crs # polygons_gdf'.crs
                 THEN Append(warned, "crs_mismatch")
                 ELSE warned
    /\ pc' = "step4"
    /\ UNCHANGED <<gdf, gdf_dropped_index, poly_indexes_with_points,
                   filtered_polygons, final_gdf, exploded_final_gdf, result,
                   printed>>

-----------------------------------------------------------------------------
(* Step 4 (lines 35-37): polygons that contain a point *)

\* the "contains" predicate of the library
contains(poly, pt) ==
    \E k \in DOMAIN poly.parts : pt.at \in poly.parts[k].covers

\* left.sjoin(right, how="inner", predicate="contains"): one record per pair;
\* the result keeps the left labels as its index, and the column "id", which
\* both sides have, comes out as id_left and id_right
sjoin(left, right) ==
    {[index |-> l.idx, id_left |-> l.id, index_right |-> r.idx, id_right |-> r.id] :
        <<l, r>> \in {x \in {left.rows[p] : p \in DOMAIN left.rows}
                             \X {right.rows[p] : p \in DOMAIN right.rows} :
                        contains(x[1].geometry, x[2].geometry)}}

\* intersected_polygons.id_left.unique()
id_left_unique(joined) == {j.id_left : j \in joined}

\* polygons_gdf.loc[~polygons_gdf.index.isin(values)]
NotIndexIsin(df, values) ==
    [df EXCEPT !.rows = SelectSeq(@, LAMBDA r : r.idx \notin values)]

Step4 ==
    /\ pc = "step4"
    /\ poly_indexes_with_points' = id_left_unique(sjoin(polygons_gdf, points_gdf))
    /\ filtered_polygons' = NotIndexIsin(polygons_gdf, poly_indexes_with_points')
    /\ pc' = "step5"
    /\ UNCHANGED <<gdf, gdf_dropped_index, points_gdf, polygons_gdf, final_gdf,
                   exploded_final_gdf, result, printed, warned>>

-----------------------------------------------------------------------------
(* Step 5 (line 40): points first, then the polygons that are left *)

\* gpd.GeoDataFrame(pd.concat([a, b]), crs=crs)
concat(a, b, crs) ==
    [crs |-> crs, columns |-> a.columns \cup b.columns, rows |-> a.rows \o b.rows]

Step5 ==
    /\ pc = "step5"
    /\ final_gdf' = concat(points_gdf, filtered_polygons, gdf.crs)
    /\ pc' = "step6"
    /\ UNCHANGED <<gdf, gdf_dropped_index, points_gdf, polygons_gdf,
                   poly_indexes_with_points, filtered_polygons,
                   exploded_final_gdf, result, printed, warned>>

-----------------------------------------------------------------------------
(* Step 6 (lines 43-58): centroids, explode, CRS tag *)

\* the centroid of the library, a Point
centroid(part) == Point(part.centroid)

\* lines 43-54; a Python list is [type |-> "list", items |-> sequence]
poly_to_centroid(geom) ==
    IF geom.type = "Polygon"
    THEN centroid(geom.parts[1])
    ELSE IF geom.type = "MultiPolygon"
         THEN [type |-> "list",
               items |-> [k \in DOMAIN geom.parts |-> centroid(geom.parts[k])]]
         ELSE geom

\* final_gdf["geometry"].apply(poly_to_centroid)
apply_poly_to_centroid(rows) ==
    [p \in DOMAIN rows |-> [rows[p] EXCEPT !.geometry = poly_to_centroid(@)]]

\* the rows one row explodes into: one per element of a list, each with the
\* other cells of the row; a row that holds no list stays as it is
explode_row(r) ==
    IF r.geometry.type = "list"
    THEN [k \in DOMAIN r.geometry.items |-> [r EXCEPT !.geometry = r.geometry.items[k]]]
    ELSE <<r>>

RECURSIVE explode_rows(_)
explode_rows(rows) ==
    IF rows = <<>> THEN <<>>
    ELSE explode_row(Head(rows)) \o explode_rows(Tail(rows))

\* ignore_index=True: labels 0, 1, 2, ...
renumber(rows) == [p \in DOMAIN rows |-> [rows[p] EXCEPT !.idx = p - 1]]

exploded_crs_kept(df) == df.crs

\* the crs argument of line 58
exploded_crs(df) == "epsg:4326"

\* lines 56-58
explode(df) ==
    [crs |-> exploded_crs(df),
     columns |-> df.columns,
     rows |-> renumber(explode_rows(apply_poly_to_centroid(df.rows)))]

\* line 58 hands the constructor a geometry column and a CRS.  A column
\* that still carries another CRS tag makes releases of the library that
\* refuse a CRS override raise ValueError; the column has lost its tag when
\* apply() returned a list for some row (it is then a column of objects)
crs_override_rejected(df) ==
    /\ df.crs # exploded_crs(df)
    /\ \A p \in DOMAIN df.rows : poly_to_centroid(df.rows[p].geometry).type # "list"

Step6 ==
    /\ pc = "step6"
    /\ exploded_final_gdf' = explode(final_gdf)
    /\ pc' = "step7"
    /\ UNCHANGED <<gdf, gdf_dropped_index, points_gdf, polygons_gdf,
                   poly_indexes_with_points, filtered_polygons, final_gdf,
                   result, printed, warned>>

\* the constructor of line 58 raises: the call ends without a result
Step6Raise ==
    /\ pc = "step6"
    /\ crs_override_rejected(final_gdf)
    /\ pc' = "raised"
    /\ UNCHANGED <<gdf, gdf_dropped_index, points_gdf, polygons_gdf,
                   poly_indexes_with_points, filtered_polygons, final_gdf,
                   exploded_final_gdf, result, printed, warned>>

-----------------------------------------------------------------------------
(* Step 7 (lines 61-66): duplicate geometries *)

\* geometry.duplicated(): TRUE at a row whose geometry an earlier row has
duplicated(rows) ==
    [p \in DOMAIN rows |-> \E q \in 1..(p - 1) : rows[q].geometry = rows[p].geometry]

duplicates_count_keep_false(rows) ==
    Cardinality({p \in DOMAIN rows :
        \E q \in DOMAIN rows : q # p /\ rows[q].geometry = rows[p].geometry})

\* .sum() of the mask
duplicates_count(rows) ==
    Cardinality({p \in DOMAIN rows : duplicated(rows)[p]})

drop_duplicates_keep_last(df) ==
    [crs |-> df.crs, columns |-> df.columns,
     rows |-> SelectSeq(df.rows, LAMBDA r :
                 \A q \in DOMAIN df.rows :
                     df.rows[q].geometry = r.geometry => df.rows[q].idx <= r.idx)]

\* drop_duplicates(subset=["geometry"]): the first row of each geometry
\* stays, with its label
drop_duplicates(df) ==
    LET mask == duplicated(df.rows)
        kept[p \in 0..Len(df.rows)] ==
            IF p = 0 THEN <<>>
            ELSE IF mask[p] THEN kept[p - 1]
                 ELSE Append(kept[p - 1], df.rows[p])
    IN [crs |-> df.crs, columns |-> df.columns, rows |-> kept[Len(df.rows)]]

Step7 ==
    /\ pc = "step7"
    /\ LET count == duplicates_count(exploded_final_gdf.rows) IN
         IF count > 0
         THEN /\ printed' = Append(printed, [msg |-> "duplicates_found", count |-> count])
              /\ result' = drop_duplicates(exploded_final_gdf)
         ELSE /\ result' = exploded_final_gdf
              /\ UNCHANGED printed
    /\ pc' = "done"
    /\ UNCHANGED <<gdf, gdf_dropped_index, points_gdf, polygons_gdf,
                   poly_indexes_with_points, filtered_polygons, final_gdf,
                   exploded_final_gdf, warned>>

-----------------------------------------------------------------------------
Next ==
    \/ Step1 \/ Step2 \/ Step3 \/ Step4 \/ Step5
    \/ Step6 \/ Step6Raise
    \/ Step7

Spec == Init /\ [][Next]_vars

-----------------------------------------------------------------------------
(* Vocabulary of the properties *)

Done == pc = "done"

RowsOf(df) == {df.rows[p] : p \in DOMAIN df.rows}

InputGeom(p) == gdf.rows[p].geometry

InputIsPoint(p) == InputGeom(p).type = "Point"

InputIsPolygonal(p) == InputGeom(p).type \in {"Polygon", "MultiPolygon"}

\* the input record at p contains at least one input Point
ContainsAnInputPoint(p) ==
    \E q \in DOMAIN gdf.rows : InputIsPoint(q) /\ contains(InputGeom(p), InputGeom(q))

\* missing cells of column c over the records of the input, which are the
\* records of the collection right after the index reset
MissingIn(c) ==
    Cardinality({p \in DOMAIN gdf.rows :
        c \in DOMAIN gdf.rows[p].attrs /\ gdf.rows[p].attrs[c] = NA})

\* missing cells of column c over the records of the output
MissingOut(c) ==
    Cardinality({p \in DOMAIN result.rows :
        c \in DOMAIN result.rows[p].attrs /\ result.rows[p].attrs[c] = NA})

\* the attributes an output row inherits from the input record at p
InheritedAttrs(p) ==
    [c \in (DOMAIN gdf.rows[p].attrs) \cap result.columns |-> gdf.rows[p].attrs[c]]

-----------------------------------------------------------------------------
(* C1 *)

\* Scenario A: one Polygon that contains the one Point
ScenarioA ==
    /\ Len(gdf.rows) = 2
    /\ \E p, q \in DOMAIN gdf.rows :
          /\ InputGeom(p).type = "Polygon"
          /\ InputIsPoint(q)
          /\ contains(InputGeom(p), InputGeom(q))

\* C1: no output record descends from an input Polygon or MultiPolygon that
\* contains an input Point; one Polygon over one Point gives that Point alone.
C1_ContainingPolygonSuppressed ==
    Done =>
        /\ \A p \in DOMAIN gdf.rows :
              InputIsPolygonal(p) /\ ContainsAnInputPoint(p)
                 => \A r \in RowsOf(result) : r.origin # p
        /\ ScenarioA =>
              /\ Len(result.rows) = 1
              /\ InputIsPoint(result.rows[1].origin)

-----------------------------------------------------------------------------
(* C2 *)

\* C2: every part centroid of an input Polygon or MultiPolygon that contains
\* no input Point is an output record of that polygon, with the polygon's
\* identifier and attributes, unless another record holds that geometry.
C2_StandalonePolygonReduced ==
    Done =>
        \A p \in DOMAIN gdf.rows :
            InputIsPolygonal(p) /\ ~ContainsAnInputPoint(p)
               => \A k \in DOMAIN InputGeom(p).parts :
                     LET c == centroid(InputGeom(p).parts[k]) IN
                        \/ \E r \in RowsOf(result) :
                              /\ r.origin = p
                              /\ r.geometry = c
                              /\ r.id = gdf.rows[p].id
                              /\ r.attrs = InheritedAttrs(p)
                        \/ \E r \in RowsOf(result) : r.origin # p /\ r.geometry = c

-----------------------------------------------------------------------------
(* C3 *)

\* C3: every record of the returned collection has a Point geometry, also
\* when the input holds a geometry that is no Point, Polygon or MultiPolygon.
C3_OutputHoldsOnlyPoints ==
    Done => \A r \in RowsOf(result) : r.geometry.type = "Point"

\* an input with a LineString and a MultiPolygon, the MultiPolygon reduced
\* to output records
C3_Witness ==
    /\ Done
    /\ \E p \in DOMAIN gdf.rows : InputGeom(p).type = "LineString"
    /\ \E r \in RowsOf(result) : InputGeom(r.origin).type = "MultiPolygon"

-----------------------------------------------------------------------------
(* C4 *)

\* position, in the collection before the final dedup, of the first row that
\* has the geometry of the row at p
FirstWithGeometryOf(p) ==
    CHOOSE q \in 1..p :
        /\ exploded_final_gdf.rows[q].geometry = exploded_final_gdf.rows[p].geometry
        /\ \A x \in 1..(q - 1) :
              exploded_final_gdf.rows[x].geometry # exploded_final_gdf.rows[p].geometry

\* C4: output geometries are pairwise different; of the rows with one
\* geometry the first in iteration order is the one returned, unchanged; and
\* rows of input Points come before rows of polygons in that order.
C4_FirstOfEachGeometryKept ==
    Done =>
        /\ \A a, b \in DOMAIN result.rows :
              a # b => result.rows[a].geometry # result.rows[b].geometry
        /\ RowsOf(result) =
              {exploded_final_gdf.rows[FirstWithGeometryOf(p)] :
                  p \in DOMAIN exploded_final_gdf.rows}
        /\ \A a, b \in DOMAIN exploded_final_gdf.rows :
              a < b /\ InputIsPoint(exploded_final_gdf.rows[b].origin)
                 => InputIsPoint(exploded_final_gdf.rows[a].origin)

\* the centroid of a polygon that is left equals an input Point, and the
\* Point's record is the one in the output
C4_Witness ==
    /\ Done
    /\ \E a, b \in DOMAIN exploded_final_gdf.rows :
          /\ a < b
          /\ exploded_final_gdf.rows[a].geometry = exploded_final_gdf.rows[b].geometry
          /\ InputIsPoint(exploded_final_gdf.rows[a].origin)
          /\ InputIsPolygonal(exploded_final_gdf.rows[b].origin)
          /\ exploded_final_gdf.rows[a] \in RowsOf(result)

-----------------------------------------------------------------------------
(* C5 *)

\* columns of the collection right after the index reset
ColumnsAfterReset == {"id"} \cup gdf.columns

\* the columns with more than 90% of their values missing over all records
SparseColumns == {c \in ColumnsAfterReset : 10 * MissingIn(c) > 9 * Len(gdf.rows)}

\* C5: the output lacks exactly the columns whose missing fraction over all
\* records after the index reset is above 0.90, and the first diagnostic
\* names exactly those columns, or says that there are none.
C5_SparseColumnsDropped ==
    Done =>
        /\ result.columns = ColumnsAfterReset \ SparseColumns
        /\ \A r \in RowsOf(result) : DOMAIN r.attrs = result.columns \ {"id", "geometry"}
        /\ Len(printed) >= 1
        /\ printed[1] = IF SparseColumns = {}
                        THEN [msg |-> "no_sparse_columns"]
                        ELSE [msg |-> "dropped_columns", columns |-> SparseColumns]

\* twenty records: "name" missing in 18 (exactly 0.90, retained), "brand"
\* missing in 19 (0.95, dropped)
C5_Witness ==
    /\ Done
    /\ Len(gdf.rows) = 20
    /\ MissingIn("name") = 18
    /\ MissingIn("brand") = 19
    /\ "name" \in result.columns
    /\ "brand" \notin result.columns
    /\ printed[1] = [msg |-> "dropped_columns", columns |-> {"brand"}]

-----------------------------------------------------------------------------
(* C6 *)

\* C6 as stated: no column of the output has more than 90% of its values
\* missing over the output records.
C6_NoSparseColumnOverOutput ==
    Done =>
        \A c \in result.columns : ~(10 * MissingOut(c) > 9 * Len(result.rows))

\* C6, amended: no column of the output has more than 90% of its values
\* missing over the records of the collection right after the index reset.
C6_NoSparseColumnOverInput ==
    Done =>
        \A c \in result.columns : 10 * MissingIn(c) <= 9 * Len(gdf.rows)

\* a column retained at step 2 that the removal of records leaves without a
\* value in the output
C6_Witness ==
    /\ Done
    /\ Len(result.rows) < Len(gdf.rows)
    /\ \E c \in result.columns :
          /\ MissingIn(c) > 0
          /\ MissingOut(c) = Len(result.rows)

-----------------------------------------------------------------------------
(* C7 *)

\* C7: the output is tagged EPSG:4326 whatever the input tag, and an output
\* Point that comes from an input Point has the input coordinates.
C7_RetaggedNotTransformed ==
    Done =>
        /\ result.crs = "epsg:4326"
        /\ \A r \in RowsOf(result) :
              InputIsPoint(r.origin) => r.geometry = InputGeom(r.origin)

\* an input tagged otherwise, with a Point that reaches the output
C7_Witness ==
    /\ Done
    /\ gdf.crs = "epsg:3857"
    /\ final_gdf.crs = "epsg:3857"
    /\ \E r \in RowsOf(result) : InputIsPoint(r.origin)

-----------------------------------------------------------------------------
(* C9 *)

DuplicateDiagnostics == SelectSeq(printed, LAMBDA m : m.msg = "duplicates_found")

\* some row before the final dedup has the geometry of an earlier row
SomeGeometryRepeats ==
    \E a, b \in DOMAIN exploded_final_gdf.rows :
        a < b /\ exploded_final_gdf.rows[a].geometry = exploded_final_gdf.rows[b].geometry

\* Scenario D: two Points with the same coordinates
ScenarioD ==
    /\ Len(gdf.rows) = 2
    /\ InputIsPoint(1) /\ InputIsPoint(2)
    /\ InputGeom(1) = InputGeom(2)

\* C9: the duplicate diagnostic is printed exactly when a geometry repeats
\* after the explode, and its count is the number of rows the dedup removes;
\* two Points with the same coordinates give a count of 1 and one record.
C9_DuplicateCountIsRowsRemoved ==
    Done =>
        /\ Len(DuplicateDiagnostics) = (IF SomeGeometryRepeats THEN 1 ELSE 0)
        /\ SomeGeometryRepeats =>
              DuplicateDiagnostics[1].count =
                  Len(exploded_final_gdf.rows) - Len(result.rows)
        /\ ScenarioD =>
              /\ DuplicateDiagnostics = <<[msg |-> "duplicates_found", count |-> 1]>>
              /\ Len(result.rows) = 1

\* a geometry held by three rows, two of them removed
C9_Witness ==
    /\ Done
    /\ Len(DuplicateDiagnostics) = 1
    /\ DuplicateDiagnostics[1].count = 2
    /\ Len(result.rows) = Len(exploded_final_gdf.rows) - 2
    /\ \E a, b, c \in DOMAIN exploded_final_gdf.rows :
          /\ a < b /\ b < c
          /\ exploded_final_gdf.rows[a].geometry = exploded_final_gdf.rows[b].geometry
          /\ exploded_final_gdf.rows[b].geometry = exploded_final_gdf.rows[c].geometry

-----------------------------------------------------------------------------
(* C10 *)

\* C10: from step 3 on, the point-set and the polygon-set carry the CRS tag
\* of the input and no CRS-mismatch warning has been emitted.
C10_NoMismatchWarning ==
    pc \in {"step4", "step5", "step6", "step7", "done"} =>
        /\ points_gdf.crs = gdf.crs
        /\ polygons_gdf.crs = gdf.crs
        /\ warned = <<>>

\* both sets hold records and the input is not tagged EPSG:4326
C10_Witness ==
    /\ Done
    /\ gdf.crs = "epsg:3857"
    /\ points_gdf.rows # <<>>
    /\ polygons_gdf.rows # <<>>
    /\ warned = <<>>

====
